---- MODULE Spec2Model ----
(***************************************************************************)
(* The Earth Class Mail MCP server (src/src/index.ts): the API client, the *)
(* response shapers, the tool catalog and the call-tool handler.           *)
(*                                                                         *)
(* Conventions of the model                                                *)
(*  - an optional (possibly undefined) value is <<>> when undefined and    *)
(*    <<v>> when present;                                                  *)
(*  - a JSON value is a record tagged by its field t;                      *)
(*  - JSON.stringify(v, null, 2) is the text [json |-> v]: an undefined    *)
(*    property of v is omitted from the text, a literal text is            *)
(*    [str |-> s];                                                         *)
(*  - an async function runs from one await to the next in one action; a   *)
(*    function that may throw yields Return(v) or Throw(name, message).    *)
(***************************************************************************)
EXTENDS Integers, Sequences, FiniteSets, TLC

VARIABLES
    apiKey,     \* EarthClassMailClient.apiKey
    tools,      \* the TOOLS array
    listing,    \* what the last list-tools request returned
    calls       \* the invocations of the call-tool handler, by slot

vars == <<apiKey, tools, listing, calls>>

----------------------------------------------------------------------------
(* Bounds of the model *)

MaxMedia == 2       \* longest media list of a piece
MaxData == 1        \* longest data list of a piece-list response
MaxInFlight == 2    \* handler invocations alive at once (SpecInterleaved)

----------------------------------------------------------------------------
(* JavaScript values *)

Undefined == <<>>
Some(v) == <<v>>
IsDef(o) == Len(o) > 0
Val(o) == o[1]

\* `${n}` and String(n) of an optional number
NumStr(o) == IF IsDef(o) THEN ToString(Val(o)) ELSE "undefined"

\* truthiness of an optional number, string, boolean
TruthyNum(o) == IsDef(o) /\ Val(o) # 0
TruthyStr(o) == IsDef(o) /\ Val(o) # ""
TruthyBool(o) == IsDef(o) /\ Val(o)

Min(a, b) == IF a < b THEN a ELSE b

RECURSIVE Join(_, _)
Join(strs, sep) ==
    IF Len(strs) = 0 THEN ""
    ELSE IF Len(strs) = 1 THEN strs[1]
    ELSE strs[1] \o sep \o Join(Tail(strs), sep)

RECURSIVE SeqsUpTo(_, _)
SeqsUpTo(S, n) ==
    IF n = 0 THEN {<<>>}
    ELSE LET shorter == SeqsUpTo(S, n - 1)
         IN shorter \cup {Append(s, x) : s \in {t \in shorter : Len(t) = n - 1}, x \in S}

Return(v) == [ok |-> TRUE, value |-> v, err |-> [name |-> "", message |-> ""]]
Throw(name, message) ==
    [ok |-> FALSE, value |-> [t |-> "none"], err |-> [name |-> name, message |-> message]]

JSONstringify(v) == [json |-> v]
Str(s) == [str |-> s]

----------------------------------------------------------------------------
(* Remote responses *)

\* response.ok
Ok(status) == status >= 200 /\ status <= 299

\* the body of an HTTP response: text that parses to json, or text that does not
Body(json) == [valid |-> TRUE, json |-> json]
InvalidBody == [valid |-> FALSE, json |-> [t |-> "none"]]

\* what fetch() settles with: a rejection, or a response
Rejected(message) ==
    [rejects |-> TRUE, message |-> message, status |-> 0, body |-> InvalidBody]
Response(status, body) ==
    [rejects |-> FALSE, message |-> "", status |-> status, body |-> body]

\* a JSON object {"error": ...}: e tells what the error property holds
ErrorObject(e, message) == [t |-> "object", error |-> [e |-> e, message |-> message]]

----------------------------------------------------------------------------
(* EarthClassMailClient *)

API_BASE == "https://api.earthclassmail.com/v1"

\* URLSearchParams.toString(): name=value joined by &, percent-encoded
Encode(s) == IF s = "attributes[]" THEN "attributes%5B%5D" ELSE s
ParamsToString(params) ==
    Join([i \in 1..Len(params) |-> Encode(params[i][1]) \o "=" \o Encode(params[i][2])], "&")

\* an endpoint: the path and the entries of its query string
Endpoint(path, params) == [path |-> path, params |-> params]
EndpointStr(e) ==
    LET query == ParamsToString(e.params)
    IN e.path \o (IF query # "" THEN "?" \o query ELSE "")

\* request: the fetch it issues
request(key, endpoint, method) ==
    [target |-> "api",
     url |-> API_BASE \o EndpointStr(endpoint),
     path |-> endpoint.path,
     params |-> endpoint.params,
     method |-> method,
     headers |-> Some([x_api_key |-> key, Accept |-> "application/json",
                       Content_Type |-> "application/json"])]

\* error.error?.message of the parsed error body
ErrorMessageOf(json) ==
    IF json.t = "object" /\ json.error.e = "object" THEN json.error.message
    ELSE Undefined

\* request: what it does with the settled fetch
requestResult(resp) ==
    IF resp.rejects THEN Throw("TypeError", resp.message)
    ELSE IF ~Ok(resp.status) THEN
        LET error == IF resp.body.valid THEN resp.body.json
                     ELSE [t |-> "object", error |-> [e |-> "absent", message |-> Undefined]]
        IN IF error.t = "null"
           THEN Throw("TypeError", "Cannot read properties of null (reading 'error')")
           ELSE Throw("Error",
                      IF TruthyStr(ErrorMessageOf(error)) THEN Val(ErrorMessageOf(error))
                      ELSE "API error: " \o ToString(resp.status))
    ELSE IF ~resp.body.valid THEN Throw("SyntaxError", "Unexpected end of JSON input")
    ELSE Return(resp.body.json)

getUser(key) == request(key, Endpoint("/user", <<>>), "GET")

listInboxes(key) == request(key, Endpoint("/inboxes", <<>>), "GET")

getInbox(key, inboxId) ==
    request(key, Endpoint("/inboxes/" \o NumStr(inboxId), <<>>), "GET")

listPieces(key, inboxId, options) ==
    LET p1 == IF TruthyNum(options.page)
              THEN <<<<"page", ToString(Val(options.page))>>>> ELSE <<>>
        p2 == IF TruthyNum(options.per_page)
              THEN <<<<"per_page", ToString(Val(options.per_page))>>>> ELSE <<>>
        p3 == IF TruthyStr(options.sort) THEN <<<<"sort", Val(options.sort)>>>> ELSE <<>>
        p4 == IF TruthyBool(options.unread_only)
              THEN <<<<"attributes[]", "unread">>>> ELSE <<>>
    IN request(key,
               Endpoint("/inboxes/" \o NumStr(inboxId) \o "/pieces", p1 \o p2 \o p3 \o p4),
               "GET")

getPiece(key, pieceId) ==
    request(key, Endpoint("/pieces/" \o NumStr(pieceId), <<>>), "GET")

listRecipients(key, inboxId) ==
    request(key, Endpoint("/inboxes/" \o NumStr(inboxId) \o "/recipients", <<>>), "GET")

\* the own properties of the actionMap object literal
actionMap ==
    ("move-to-archive" :> "archive") @@ ("move-to-trash" :> "trash") @@
    ("move-to-inbox" :> "inbox") @@ ("send-to-cloud" :> "cloud") @@
    ("send-to-email" :> "email") @@ ("scan" :> "scan") @@ ("shred" :> "shred") @@
    ("ship" :> "ship") @@ ("archive" :> "archive") @@ ("trash" :> "trash") @@
    ("inbox" :> "inbox")

\* actionMap is a plain object: actionMap[name] also finds what it inherits from
\* Object.prototype, here by what `${value}` makes of it
ObjectPrototype ==
    ("constructor" :> "function Object() { [native code] }") @@
    ("toString" :> "function toString() { [native code] }") @@
    ("valueOf" :> "function valueOf() { [native code] }") @@
    ("hasOwnProperty" :> "function hasOwnProperty() { [native code] }") @@
    ("__proto__" :> "[object Object]")

\* actionMap[action]
actionMapGet(name) ==
    IF name \in DOMAIN actionMap THEN Some(actionMap[name])
    ELSE IF name \in DOMAIN ObjectPrototype THEN Some(ObjectPrototype[name])
    ELSE Undefined

\* an optional string as a property key or in a template literal
KeyStr(o) == IF IsDef(o) THEN Val(o) ELSE "undefined"

performAction(key, pieceId, action) ==
    LET found == actionMapGet(KeyStr(action))
        endpoint == IF TruthyStr(found) THEN Val(found) ELSE KeyStr(action)
    IN request(key, Endpoint("/pieces/" \o NumStr(pieceId) \o "/" \o endpoint, <<>>), "POST")

\* Buffer.from(buffer).toString("base64")
B64 == <<"A","B","C","D","E","F","G","H","I","J","K","L","M","N","O","P",
         "Q","R","S","T","U","V","W","X","Y","Z","a","b","c","d","e","f",
         "g","h","i","j","k","l","m","n","o","p","q","r","s","t","u","v",
         "w","x","y","z","0","1","2","3","4","5","6","7","8","9","+","/">>
B64Char(n) == B64[n + 1]

RECURSIVE Base64(_)
Base64(bytes) ==
    IF Len(bytes) = 0 THEN ""
    ELSE IF Len(bytes) = 1 THEN
        B64Char(bytes[1] \div 4) \o B64Char((bytes[1] % 4) * 16) \o "=="
    ELSE IF Len(bytes) = 2 THEN
        B64Char(bytes[1] \div 4) \o B64Char((bytes[1] % 4) * 16 + bytes[2] \div 16)
        \o B64Char((bytes[2] % 16) * 4) \o "="
    ELSE
        B64Char(bytes[1] \div 4) \o B64Char((bytes[1] % 4) * 16 + bytes[2] \div 16)
        \o B64Char((bytes[2] % 16) * 4 + bytes[3] \div 64) \o B64Char(bytes[3] % 64)
        \o Base64(SubSeq(bytes, 4, Len(bytes)))

\* a Content-Type header value type/subtype
ContentType(type, subtype) == [type |-> type, subtype |-> subtype]
MimeStr(ct) == ct.type \o "/" \o ct.subtype
StartsWithImage(ct) == ct.type = "image"

\* what fetch(url) of a media URL settles with
MediaRejected(message) ==
    [rejects |-> TRUE, message |-> message, status |-> 0,
     contentType |-> Undefined, bytes |-> <<>>]
MediaResponse(status, contentType, bytes) ==
    [rejects |-> FALSE, message |-> "", status |-> status,
     contentType |-> contentType, bytes |-> bytes]

\* fetchMediaContent: the fetch it issues
fetchMediaContent(url) ==
    [target |-> "media", url |-> url, path |-> url, params |-> <<>>,
     method |-> "GET", headers |-> Undefined]

\* fetchMediaContent: what it does with the settled fetch
fetchMediaContentResult(resp) ==
    IF resp.rejects THEN Throw("TypeError", resp.message)
    ELSE IF ~Ok(resp.status)
    THEN Throw("Error", "Failed to fetch media: " \o ToString(resp.status))
    ELSE Return([t |-> "media",
                 data |-> Base64(resp.bytes),
                 contentType |-> IF IsDef(resp.contentType) THEN Val(resp.contentType)
                                 ELSE ContentType("application", "octet-stream")])


----------------------------------------------------------------------------
(* Response shaping *)

summarizePieceListedMedia(piece) ==
    [id |-> piece.id,
     received_at |-> piece.received_at,
     piece_type |-> piece.piece_type,
     piece_sub_type |-> piece.piece_sub_type,
     sender |-> IF IsDef(piece.sender) /\ Val(piece.sender).name # ""
                THEN Val(piece.sender).name ELSE "Unknown",
     recipient |-> IF IsDef(piece.recipient) /\ Val(piece.recipient).name # ""
                   THEN Val(piece.recipient).name ELSE "Unknown",
     attributes |-> piece.attributes,
     available_actions |-> piece.available_actions,
     page_count |-> piece.page_count_actual,
     has_media |-> IsDef(piece.media),
     operation_status |-> piece.operation_status]

summarizePiece(piece) ==
    [id |-> piece.id,
     received_at |-> piece.received_at,
     piece_type |-> piece.piece_type,
     piece_sub_type |-> piece.piece_sub_type,
     sender |-> IF IsDef(piece.sender) /\ Val(piece.sender).name # ""
                THEN Val(piece.sender).name ELSE "Unknown",
     recipient |-> IF IsDef(piece.recipient) /\ Val(piece.recipient).name # ""
                   THEN Val(piece.recipient).name ELSE "Unknown",
     attributes |-> piece.attributes,
     available_actions |-> piece.available_actions,
     page_count |-> piece.page_count_actual,
     has_media |-> (IF IsDef(piece.media) /\ Len(Val(piece.media)) # 0
                    THEN Len(Val(piece.media)) ELSE 0) > 0,
     operation_status |-> piece.operation_status]

PLACEHOLDER == "[URL available - set include_media=true to see]"

stripMediaKeepsUrl(m) == [content_type |-> m.content_type, tags |-> m.tags, url |-> m.url]

\* m => ({content_type, tags, url: placeholder})
stripMedia(m) == [content_type |-> m.content_type, tags |-> m.tags, url |-> PLACEHOLDER]

----------------------------------------------------------------------------
(* The tool catalog *)

Tool(name, properties, required) ==
    [name |-> name, properties |-> properties, required |-> required]

TOOLSListsMore == <<Tool("ecm_get_user", {}, {}), Tool("ecm_delete_piece", {"piece_id"}, {"piece_id"})>>

TOOLS == <<
    Tool("ecm_get_user", {}, {}),
    Tool("ecm_list_inboxes", {}, {}),
    Tool("ecm_get_inbox", {"inbox_id"}, {"inbox_id"}),
    Tool("ecm_list_pieces", {"inbox_id", "page", "per_page", "unread_only"}, {"inbox_id"}),
    Tool("ecm_get_piece", {"piece_id", "include_media"}, {"piece_id"}),
    Tool("ecm_list_recipients", {"inbox_id"}, {"inbox_id"}),
    Tool("ecm_perform_action", {"piece_id", "action"}, {"piece_id", "action"}),
    Tool("ecm_get_piece_content", {"piece_id", "include_ocr"}, {"piece_id"}) >>

----------------------------------------------------------------------------
(* The call-tool handler *)

TextBlock(text) == [type |-> "text", text |-> text]
ImageBlock(data, mimeType) == [type |-> "image", data |-> data, mimeType |-> mimeType]

\* { content } and { content, isError: true }
Success(content) == [content |-> content, isError |-> FALSE]
Failure(content) == [content |-> content, isError |-> TRUE]
NoResult == [content |-> <<>>, isError |-> FALSE]

NoFetch == [target |-> "none"]
Await(fetch) == [await |-> TRUE, fetch |-> fetch, result |-> NoResult]
Done(result) == [await |-> FALSE, fetch |-> NoFetch, result |-> result]

\* the default case of the switch
unknownTool(name) == Failure(<<TextBlock(Str("Unknown tool: " \o name))>>)

\* case "ecm_list_pieces": const perPage
perPageUncapped(args) == IF TruthyNum(args.per_page) THEN Val(args.per_page) ELSE 10
perPage(args) ==
    Min(IF TruthyNum(args.per_page) THEN Val(args.per_page) ELSE 10, 50)

\* the switch, up to the first await of each case
dispatch(key, name, args) ==
    CASE name = "ecm_get_user" -> Await(getUser(key))
      [] name = "ecm_list_inboxes" -> Await(listInboxes(key))
      [] name = "ecm_get_inbox" -> Await(getInbox(key, args.inbox_id))
      [] name = "ecm_list_pieces" ->
            Await(listPieces(key, args.inbox_id,
                             [page |-> args.page, per_page |-> Some(perPage(args)),
                              sort |-> Undefined, unread_only |-> args.unread_only]))
      [] name = "ecm_get_piece" -> Await(getPiece(key, args.piece_id))
      [] name = "ecm_list_recipients" -> Await(listRecipients(key, args.inbox_id))
      [] name = "ecm_perform_action" -> Await(performAction(key, args.piece_id, args.action))
      [] name = "ecm_get_piece_content" -> Await(getPiece(key, args.piece_id))
      [] OTHER -> Done(unknownTool(name))

NullRead(property) ==
    Throw("TypeError", "Cannot read properties of null (reading '" \o property \o "')")

\* case "ecm_list_pieces", after the await
listPiecesCase(pieces) ==
    IF pieces.t = "null" THEN NullRead("current_page")
    ELSE Return(Success(<<TextBlock(JSONstringify(
            [current_page |-> pieces.current_page,
             last_page |-> pieces.last_page,
             total |-> pieces.total,
             data |-> IF IsDef(pieces.data)
                      THEN Some([i \in 1..Len(Val(pieces.data)) |->
                                    summarizePiece(Val(pieces.data)[i])])
                      ELSE Undefined]))>>))

\* case "ecm_get_piece", after the await
getPieceCase(args, piece) ==
    IF piece.t = "null" THEN NullRead("media")
    ELSE IF ~TruthyBool(args.include_media) /\ IsDef(piece.media)
    THEN Return(Success(<<TextBlock(JSONstringify(
            [piece EXCEPT !.media = Some([i \in 1..Len(Val(piece.media)) |->
                                            stripMedia(Val(piece.media)[i])])]))>>))
    ELSE Return(Success(<<TextBlock(JSONstringify(piece))>>))

\* the other one-request cases, after the await
plainCase(value) == Return(Success(<<TextBlock(JSONstringify(value))>>))

\* the switch of the one-request tools, from the await to the return
resume(name, args, value) ==
    CASE name = "ecm_list_pieces" -> listPiecesCase(value)
      [] name = "ecm_get_piece" -> getPieceCase(args, value)
      [] OTHER -> plainCase(value)

HeaderNote ==
    "Note: ECM API only provides envelope images. Scanned document pages are only available via OCR text or send-to-email action."

\* case "ecm_get_piece_content", from the await of getPiece to the media loop
pieceContentStart(args, piece) ==
    IF piece.t = "null" THEN NullRead("id")
    ELSE
        LET includeOcr == ~(IsDef(args.include_ocr) /\ Val(args.include_ocr) = FALSE)
            pages == IF TruthyNum(piece.page_count_actual)
                     THEN Val(piece.page_count_actual) ELSE 0
            header == TextBlock(Str("Mail piece " \o ToString(piece.id) \o ": "
                                    \o ToString(pages) \o " scanned pages\n" \o HeaderNote))
            ocr == IF includeOcr /\ TruthyStr(piece.ocr_data)
                   THEN <<TextBlock(Str("\n--- OCR Text (" \o NumStr(piece.page_count_actual)
                                        \o " pages) ---\n" \o Val(piece.ocr_data)))>>
                   ELSE <<>>
        IN Return([t |-> "items", items |-> <<header>> \o ocr])

\* piece.media && piece.media.length > 0
hasMedia(piece) == IsDef(piece.media) /\ Len(Val(piece.media)) > 0

mediaBlocksImageFirst(media, fetched) ==
    IF fetched.ok
    THEN IF StartsWithImage(fetched.value.contentType)
         THEN <<ImageBlock(fetched.value.data, MimeStr(fetched.value.contentType)),
                TextBlock(Str("\n--- Envelope Image (" \o Join(media.tags, ", ") \o ") ---"))>>
         ELSE <<>>
    ELSE <<TextBlock(Str("Failed to fetch envelope image: " \o fetched.err.message))>>

\* the body of the media loop after its await: the blocks one item adds
mediaBlocks(media, fetched) ==
    IF fetched.ok
    THEN IF StartsWithImage(fetched.value.contentType)
         THEN <<TextBlock(Str("\n--- Envelope Image (" \o Join(media.tags, ", ") \o ") ---")),
                ImageBlock(fetched.value.data, MimeStr(fetched.value.contentType))>>
         ELSE <<>>
    ELSE <<TextBlock(Str("Failed to fetch envelope image: " \o fetched.err.message))>>

catchesOnlyError(err) == err.name = "Error"

\* the catch block of the handler: the errors it catches and what it returns
catches(err) == TRUE
catchResult(err) == Failure(<<TextBlock(Str("Error: " \o err.message))>>)


----------------------------------------------------------------------------
(* What the host and the remote service may send *)

NoArgs ==
    [inbox_id |-> Undefined, page |-> Undefined, per_page |-> Undefined,
     unread_only |-> Undefined, piece_id |-> Undefined, include_media |-> Undefined,
     action |-> Undefined, include_ocr |-> Undefined]

OptBool == {Undefined, Some(FALSE), Some(TRUE)}

Input(name, args) == [name |-> name, args |-> args]

UnknownNames == {"ecm_delete_piece", "ECM_GET_USER", ""}

ActionNames ==
    DOMAIN actionMap \cup {"constructor", "toString", "__proto__", "forward", ""}

AllInputs ==
    {Input("ecm_get_user", NoArgs), Input("ecm_list_inboxes", NoArgs)}
    \cup {Input(n, NoArgs) : n \in UnknownNames}
    \cup {Input(n, [NoArgs EXCEPT !.inbox_id = i]) :
            n \in {"ecm_get_inbox", "ecm_list_recipients"}, i \in {Undefined, Some(7)}}
    \cup {Input("ecm_list_pieces",
                [NoArgs EXCEPT !.inbox_id = Some(7), !.page = p, !.per_page = n,
                               !.unread_only = u]) :
            p \in {Undefined, Some(2)},
            n \in {Undefined, Some(0), Some(1), Some(50), Some(51), Some(1000), Some(-5)},
            u \in OptBool}
    \cup {Input("ecm_get_piece", [NoArgs EXCEPT !.piece_id = Some(42), !.include_media = b]) :
            b \in OptBool}
    \cup {Input("ecm_perform_action", [NoArgs EXCEPT !.piece_id = Some(42), !.action = a]) :
            a \in {Undefined} \cup {Some(x) : x \in ActionNames}}
    \cup {Input("ecm_get_piece_content",
                [NoArgs EXCEPT !.piece_id = Some(42), !.include_ocr = b]) :
            b \in OptBool}

Null == [t |-> "null"]

User ==
    [t |-> "user", id |-> 1, email |-> "a@b.com", first_name |-> "A",
     last_name |-> "B", username |-> "ab"]

Inbox == [t |-> "inbox", id |-> 7, total_piece_count |-> 25, unread_piece_count |-> 3]

Recipient == [t |-> "recipient", id |-> 5, name |-> "Bob", ecm_number |-> "1001"]

Page(data) ==
    [t |-> "page", current_page |-> Some(1), last_page |-> Some(3), total |-> Some(25),
     data |-> data]

ActionResult == [t |-> "operation", operation_status |-> "pending"]

M1 == [url |-> "https://media.example/front.png?X-Amz-Signature=aa",
       content_type |-> "image/png", tags |-> <<"envelope", "front">>]
M2 == [url |-> "https://media.example/back.jpg?X-Amz-Signature=bb",
       content_type |-> "image/jpeg", tags |-> <<"back">>]

MediaLists == {Undefined} \cup {Some(s) : s \in SeqsUpTo({M1, M2}, MaxMedia)}

Piece(sender, recipient, media, ocr, pages) ==
    [t |-> "piece", id |-> 42, created_at |-> "2024-01-02T03:04:05Z",
     received_at |-> "2024-01-02T00:00:00Z", inbox_id |-> 7, barcode |-> "ECM0042",
     piece_type |-> "letter", piece_sub_type |-> "envelope",
     attributes |-> <<"unread">>, available_actions |-> <<"scan", "shred">>,
     carrier |-> Some([name |-> "USPS", class |-> "first"]),
     sender |-> sender, recipient |-> recipient,
     page_count_actual |-> pages, weight_in_ounces |-> Some(1),
     media |-> media, operation_status |-> Some("complete"),
     operation_action |-> Some("scan"), ocr_data |-> ocr]

Senders == {Undefined, Some([name |-> "", address |-> Undefined]),
            Some([name |-> "IRS", address |-> Some("Ogden, UT")])}
Recipients == {Undefined, Some([id |-> 5, name |-> ""]), Some([id |-> 5, name |-> "Bob"])}

AllPieces ==
    {Piece(s, r, Some(<<M1>>), Some("Dear Bob"), Some(3)) : s \in Senders, r \in Recipients}
    \cup {Piece(Some([name |-> "IRS", address |-> Undefined]), Some([id |-> 5, name |-> "Bob"]),
                m, Some("Dear Bob"), Some(3)) : m \in MediaLists}
    \cup {Piece(Some([name |-> "IRS", address |-> Undefined]), Some([id |-> 5, name |-> "Bob"]),
                Some(<<M1>>), o, n) :
            o \in {Undefined, Some(""), Some("Dear Bob")}, n \in {Undefined, Some(0), Some(3)}}

ErrorBodies ==
    {InvalidBody, Body(Null), Body([t |-> "scalar"]),
     Body(ErrorObject("absent", Undefined)), Body(ErrorObject("null", Undefined)),
     Body(ErrorObject("string", Undefined))}
    \cup {Body(ErrorObject("object", m)) :
            m \in {Undefined, Some(""), Some("Not Found"), Some("Invalid API key")}}

AllMediaResponses ==
    {MediaRejected("fetch failed"),
     MediaResponse(403, Some(ContentType("application", "xml")), <<60>>),
     MediaResponse(404, Undefined, <<>>)}
    \cup {MediaResponse(200, ct, b) :
            ct \in {Undefined, Some(ContentType("image", "png")),
                    Some(ContentType("application", "pdf"))},
            b \in {<<255>>, <<137, 80, 78, 71>>}}

\* every call and response of the model
World ==
    [inputs |-> AllInputs,
     failures |-> {Rejected("fetch failed")}
                  \cup {Response(st, b) : st \in {401, 404, 500}, b \in ErrorBodies},
     okStatuses |-> {200},
     okBodies |-> {InvalidBody, Body(Null)},
     pieces |-> AllPieces,
     media |-> AllMediaResponses]

\* a few calls and responses of each kind
SmallWorld ==
    [inputs |-> {Input("ecm_get_user", NoArgs), Input("ecm_delete_piece", NoArgs),
                 Input("ecm_get_piece_content", [NoArgs EXCEPT !.piece_id = Some(42)])},
     failures |-> {Rejected("fetch failed"),
                   Response(401, Body(ErrorObject("object", Some("Invalid API key"))))},
     okStatuses |-> {200},
     okBodies |-> {},
     pieces |-> {Piece(Undefined, Undefined, Some(<<M1>>), Undefined, Some(3))},
     media |-> {MediaResponse(403, Undefined, <<>>),
                MediaResponse(200, Some(ContentType("image", "png")), <<255>>)}]

\* the JSON values an endpoint answers a tool's request with
OkJson(name, W) ==
    CASE name = "ecm_get_user" -> {User}
      [] name = "ecm_list_inboxes" -> {Page(Some(<<Inbox>>))}
      [] name = "ecm_get_inbox" -> {Inbox}
      [] name = "ecm_list_pieces" ->
            {Page(d) : d \in {Undefined} \cup {Some(ps) : ps \in SeqsUpTo(W.pieces, MaxData)}}
      [] name = "ecm_list_recipients" -> {Page(Some(<<Recipient>>))}
      [] name = "ecm_perform_action" -> {ActionResult}
      [] OTHER -> W.pieces

ApiResponses(name, W) ==
    W.failures
    \cup {Response(st, b) :
            st \in W.okStatuses, b \in W.okBodies \cup {Body(j) : j \in OkJson(name, W)}}

----------------------------------------------------------------------------
(* The server *)

Keys == {"key-aaaa", "key-bbbb"}

IdleCall ==
    [pc |-> "idle", name |-> "", args |-> NoArgs,
     fetches |-> <<>>,          \* the fetches issued, in order
     settled |-> <<>>,          \* what they settled with, in order
     piece |-> [t |-> "none"],  \* case ecm_get_piece_content: piece
     contentItems |-> <<>>,     \* case ecm_get_piece_content: contentItems
     index |-> 0,               \* case ecm_get_piece_content: the media item awaited
     result |-> NoResult,       \* what the handler returned
     thrown |-> Undefined,      \* the exception that reached the handler's try block
     returns |-> 0]             \* how many times the handler returned

Slots == 1..MaxInFlight

Init ==
    /\ apiKey \in Keys
    /\ tools = TOOLS
    /\ listing = <<>>
    /\ calls = [c \in Slots |-> IdleCall]

\* the list-tools handler
ListTools ==
    /\ listing' = tools
    /\ UNCHANGED <<apiKey, tools, calls>>

\* the handler returns `result`
returned(call, result) ==
    [call EXCEPT !.pc = "resolved", !.result = result, !.returns = @ + 1]

\* `err` is thrown inside the try block
threw(call, err) ==
    IF catches(err)
    THEN returned([call EXCEPT !.thrown = Some(err)], catchResult(err))
    ELSE [call EXCEPT !.pc = "rejected", !.thrown = Some(err)]

finish(call, outcome) ==
    IF outcome.ok THEN returned(call, outcome.value) ELSE threw(call, outcome.err)

\* client.fetchMediaContent(media.url) of the media item i of call.piece
awaitMedia(call, i) ==
    [call EXCEPT !.pc = "media", !.index = i,
                 !.fetches = Append(@, fetchMediaContent(Val(call.piece.media)[i].url))]

\* a call-tool request arrives: the handler runs to its first await
CallTool(c, W) ==
    /\ calls[c].pc = "idle"
    /\ \E in \in W.inputs :
        LET d == dispatch(apiKey, in.name, in.args)
            call == [IdleCall EXCEPT !.name = in.name, !.args = in.args]
        IN calls' = [calls EXCEPT ![c] =
                IF d.await
                THEN [call EXCEPT !.pc = "request", !.fetches = <<d.fetch>>]
                ELSE returned(call, d.result)]
    /\ UNCHANGED <<apiKey, tools, listing>>

\* the handler from the await of client.request to its next await or its end
apiSettled(old, resp) ==
    LET call == [old EXCEPT !.settled = Append(@, resp)]
        got == requestResult(resp)
        start == pieceContentStart(call.args, got.value)
        withItems == [call EXCEPT !.piece = got.value,
                                  !.contentItems = start.value.items]
    IN IF ~got.ok THEN threw(call, got.err)
       ELSE IF call.name # "ecm_get_piece_content"
       THEN finish(call, resume(call.name, call.args, got.value))
       ELSE IF ~start.ok THEN threw(call, start.err)
       ELSE IF hasMedia(got.value) THEN awaitMedia(withItems, 1)
       ELSE returned(withItems, Success(withItems.contentItems))

\* one turn of the media loop, from the await of client.fetchMediaContent
mediaSettled(call, resp) ==
    LET media == Val(call.piece.media)
        items == call.contentItems
                 \o mediaBlocks(media[call.index], fetchMediaContentResult(resp))
        next == [call EXCEPT !.settled = Append(@, resp), !.contentItems = items]
    IN IF call.index < Len(media) THEN awaitMedia(next, call.index + 1)
       ELSE returned(next, Success(items))

ApiSettlesRetries(c, W) ==
    /\ calls[c].pc = "request"
    /\ \E resp \in ApiResponses(calls[c].name, W) :
        calls' = [calls EXCEPT ![c] =
            IF ~requestResult(resp).ok /\ Len(@.fetches) < 2
            THEN [@ EXCEPT !.settled = Append(@, resp), !.fetches = Append(@, @[1])]
            ELSE apiSettled(@, resp)]
    /\ UNCHANGED <<apiKey, tools, listing>>

ApiSettlesDropsKey(c, W) ==
    /\ calls[c].pc = "request"
    /\ \E resp \in ApiResponses(calls[c].name, W) :
        /\ calls' = [calls EXCEPT ![c] = apiSettled(@, resp)]
        /\ apiKey' = IF resp.status = 401 THEN "" ELSE apiKey
    /\ UNCHANGED <<tools, listing>>

\* the fetch of client.request settles: the handler runs to its next await or its end
ApiSettles(c, W) ==
    /\ calls[c].pc = "request"
    /\ \E resp \in ApiResponses(calls[c].name, W) :
        calls' = [calls EXCEPT ![c] = apiSettled(@, resp)]
    /\ UNCHANGED <<apiKey, tools, listing>>

MediaSettlesRethrows(c, W) ==
    /\ calls[c].pc = "media"
    /\ \E resp \in W.media :
        calls' = [calls EXCEPT ![c] =
            IF fetchMediaContentResult(resp).ok THEN mediaSettled(@, resp)
            ELSE threw([@ EXCEPT !.settled = Append(@, resp)],
                       fetchMediaContentResult(resp).err)]
    /\ UNCHANGED <<apiKey, tools, listing>>

\* the fetch of client.fetchMediaContent settles: one turn of the media loop
MediaSettles(c, W) ==
    /\ calls[c].pc = "media"
    /\ \E resp \in W.media :
        calls' = [calls EXCEPT ![c] = mediaSettled(@, resp)]
    /\ UNCHANGED <<apiKey, tools, listing>>

\* the server sends the settled call's response to the host and forgets the call
SendResponse(c) ==
    /\ calls[c].pc \in {"resolved", "rejected"}
    /\ calls' = [calls EXCEPT ![c] = IdleCall]
    /\ UNCHANGED <<apiKey, tools, listing>>

\* one call at a time, every call and response of the model
Next ==
    \/ ListTools
    \/ SendResponse(1)
    \/ CallTool(1, World)
    \/ ApiSettles(1, World)
    \/ MediaSettles(1, World)

Spec == Init /\ [][Next]_vars

\* calls in flight together, a few calls and responses of each kind
NextInterleaved ==
    \/ ListTools
    \/ \E c \in Slots : SendResponse(c)
    \/ \E c \in Slots : CallTool(c, SmallWorld)
    \/ \E c \in Slots : ApiSettles(c, SmallWorld)
    \/ \E c \in Slots : MediaSettles(c, SmallWorld)

SpecInterleaved == Init /\ [][NextInterleaved]_vars


----------------------------------------------------------------------------
(* Properties *)

CatalogNames == {tools[i].name : i \in 1..Len(tools)}

\* the first fetch of the call settled with a 2xx response whose body parses
PrimaryOk(call) ==
    /\ Len(call.settled) >= 1
    /\ ~call.settled[1].rejects
    /\ Ok(call.settled[1].status)
    /\ call.settled[1].body.valid

\* the first fetch of the call settled otherwise
PrimaryFailed(call) == Len(call.settled) >= 1 /\ ~PrimaryOk(call)

\* the first fetch of the call settled with a non-2xx response
PrimaryNon2xx(call) ==
    /\ Len(call.settled) >= 1
    /\ ~call.settled[1].rejects
    /\ ~Ok(call.settled[1].status)

\* the media fetch settled with a rejection or a non-2xx response
MediaFailed(resp) == resp.rejects \/ ~Ok(resp.status)

\* C1: the handler never raises: a call is never rejected, a finished call was
\* returned from exactly once and an unfinished one not at all; when an exception
\* reached the handler's try block, and so whenever the primary request failed
\* (rejected fetch, non-2xx response, 2xx response with a malformed body), the
\* result is the single error-flagged text block "Error: <the exception's message>".
C1_HandlerNeverRaises ==
    \A c \in Slots :
        LET call == calls[c]
        IN /\ call.pc # "rejected"
           /\ call.returns = (IF call.pc = "resolved" THEN 1 ELSE 0)
           /\ IsDef(call.thrown) =>
                /\ call.pc = "resolved"
                /\ call.result.isError
                /\ call.result.content =
                        <<[type |-> "text",
                           text |-> [str |-> "Error: " \o Val(call.thrown).message]]>>
           /\ PrimaryFailed(call) => IsDef(call.thrown) /\ call.pc = "resolved"

C1_Witness ==
    \E c \in Slots :
        /\ calls[c].pc = "resolved"
        /\ IsDef(calls[c].thrown)
        /\ Val(calls[c].thrown).name = "SyntaxError"

\* the media list of the piece a call fetched
MediaOf(call) ==
    IF call.piece.t = "piece" /\ IsDef(call.piece.media) THEN Val(call.piece.media) ELSE <<>>

\* what the media fetches of a call settled with, in order
MediaAnswers(call) == SubSeq(call.settled, 2, Len(call.settled))

FailureNote(resp) ==
    [str |-> "Failed to fetch envelope image: "
             \o (IF resp.rejects THEN resp.message
                 ELSE "Failed to fetch media: " \o ToString(resp.status))]

\* C2: in ecm_get_piece_content, once the piece is fetched, no media fetch failure
\* reaches the handler's catch: each failed item adds one failure-message text block
\* and no image block, the loop goes on to the next item, every item is fetched
\* before the call returns, and the result is not error-flagged; a piece with one
\* media item whose fetch fails yields text blocks only: the header block, the OCR
\* block when OCR text is included, and the failure block.
C2_MediaFailureIsolated ==
    \A c \in Slots :
        LET call == calls[c]
            media == MediaOf(call)
            answers == MediaAnswers(call)
            items == call.contentItems
            failed == {i \in 1..Len(answers) : MediaFailed(answers[i])}
            notes == {i \in 1..Len(items) :
                        /\ items[i].type = "text"
                        /\ items[i].text \in {FailureNote(answers[j]) : j \in failed}}
            images == {i \in 1..Len(items) : items[i].type = "image"}
        IN (call.name = "ecm_get_piece_content" /\ call.piece.t = "piece") =>
            /\ ~IsDef(call.thrown)
            /\ Cardinality(notes) = Cardinality(failed)
            /\ Cardinality(images) <= Len(answers) - Cardinality(failed)
            /\ call.pc = "media" =>
                    Len(answers) < Len(media) /\ call.index = Len(answers) + 1
            /\ call.pc = "resolved" =>
                    /\ Len(answers) = Len(media)
                    /\ ~call.result.isError
                    /\ call.result.content = items
            /\ (call.pc = "resolved" /\ Len(media) = 1 /\ failed = {1}) =>
                    /\ Len(items) = (IF call.args.include_ocr # Some(FALSE)
                                        /\ TruthyStr(call.piece.ocr_data) THEN 3 ELSE 2)
                    /\ \A i \in 1..Len(items) : items[i].type = "text"
                    /\ items[Len(items)].text = FailureNote(answers[1])

C2_Witness ==
    \E c \in Slots :
        /\ calls[c].name = "ecm_get_piece_content"
        /\ calls[c].pc = "resolved"
        /\ Len(MediaOf(calls[c])) = 2
        /\ MediaFailed(calls[c].settled[2])
        /\ \E i \in 1..Len(calls[c].contentItems) : calls[c].contentItems[i].type = "image"

\* the values of the per_page entries of a fetch's query string
SentPerPage(fetch) ==
    {fetch.params[i][2] : i \in {j \in 1..Len(fetch.params) : fetch.params[j][1] = "per_page"}}

ListPiecesCalls == {c \in Slots : calls[c].name = "ecm_list_pieces" /\ calls[c].pc # "idle"}

\* C3 (as claimed): the per_page sent upstream is the caller's per_page clamped to
\* at most 50, and 10 when per_page is omitted.
C3_Original ==
    \A c \in ListPiecesCalls :
        LET asked == calls[c].args.per_page
        IN SentPerPage(calls[c].fetches[1]) =
                {ToString(IF IsDef(asked) THEN Min(Val(asked), 50) ELSE 10)}

\* C3 (amended): the per_page sent upstream is the caller's per_page clamped to at
\* most 50 when it is given and not 0, and 10 when it is omitted or 0: exactly 50
\* when the caller's is above 50, and never above 50.
C3_PerPageClamped ==
    \A c \in ListPiecesCalls :
        LET asked == calls[c].args.per_page
            sent == SentPerPage(calls[c].fetches[1])
        IN /\ sent = {ToString(IF IsDef(asked) /\ Val(asked) # 0
                               THEN Min(Val(asked), 50) ELSE 10)}
           /\ (IsDef(asked) /\ Val(asked) > 50) => sent = {"50"}
           /\ ~IsDef(asked) => sent = {"10"}
           /\ sent \subseteq {ToString(n) : n \in -1000..50}

C3_Witness ==
    \E c \in ListPiecesCalls :
        /\ calls[c].args.per_page = Some(1000)
        /\ calls[c].pc = "request"
        /\ SentPerPage(calls[c].fetches[1]) = {"50"}

\* the parsed body holds error.message
HasErrorMessage(json) ==
    json.t = "object" /\ json.error.e = "object" /\ IsDef(json.error.message)

\* C4 (as claimed): for every non-2xx response of the primary API the error raised
\* has the body's error.message as its message when the body is valid JSON holding
\* error.message, and "API error: <status>" otherwise.
C4_Original ==
    \A c \in Slots :
        LET call == calls[c]
            resp == call.settled[1]
        IN PrimaryNon2xx(call) =>
            /\ IsDef(call.thrown)
            /\ Val(call.thrown).message =
                    (IF resp.body.valid /\ HasErrorMessage(resp.body.json)
                     THEN Val(resp.body.json.error.message)
                     ELSE "API error: " \o ToString(resp.status))

\* the finished ecm_get_piece calls that fetched a piece
GotPieceCalls ==
    {c \in Slots :
        /\ calls[c].name = "ecm_get_piece"
        /\ calls[c].pc = "resolved"
        /\ PrimaryOk(calls[c])
        /\ calls[c].settled[1].body.json.t = "piece"}

\* C5: ecm_get_piece returns one text block holding the piece; with include_media
\* false or omitted every media item's url is the placeholder, its content_type and
\* tags and the number and order of the items are as received, and every other field
\* of the piece is as received; with include_media true the piece is as received.
C5_MediaUrlsReplaced ==
    \A c \in GotPieceCalls :
        LET piece == calls[c].settled[1].body.json
            flag == calls[c].args.include_media
            content == calls[c].result.content
            out == content[1].text.json
        IN /\ ~calls[c].result.isError
           /\ Len(content) = 1 /\ content[1].type = "text"
           /\ flag = Some(TRUE) => out = piece
           /\ flag # Some(TRUE) =>
                /\ [out EXCEPT !.media = piece.media] = piece
                /\ IsDef(out.media) = IsDef(piece.media)
                /\ IsDef(piece.media) =>
                    /\ Len(Val(out.media)) = Len(Val(piece.media))
                    /\ \A i \in 1..Len(Val(piece.media)) :
                        /\ Val(out.media)[i].url = PLACEHOLDER
                        /\ Val(out.media)[i].content_type = Val(piece.media)[i].content_type
                        /\ Val(out.media)[i].tags = Val(piece.media)[i].tags

C5_Witness ==
    \E c \in GotPieceCalls :
        /\ calls[c].args.include_media = Undefined
        /\ IsDef(calls[c].settled[1].body.json.media)
        /\ Len(Val(calls[c].settled[1].body.json.media)) = 2

\* C6 (as claimed): performAction POSTs to /pieces/{id}/{segment}, the segment being
\* the alias of an action name of the alias table and the caller's name verbatim for
\* every other name.
C6_Original ==
    \A c \in Slots :
        LET call == calls[c]
            name == Val(call.args.action)
        IN (call.name = "ecm_perform_action" /\ call.pc # "idle" /\ IsDef(call.args.action)) =>
            /\ call.fetches[1].method = "POST"
            /\ call.fetches[1].path =
                    "/pieces/" \o ToString(Val(call.args.piece_id)) \o "/"
                    \o (IF name \in DOMAIN actionMap THEN actionMap[name] ELSE name)

\* C7: a call returns the error-flagged "Unknown tool: <name>" block exactly when its
\* name is not a name of the catalog; such a call issues no request, and a call of a
\* name of the catalog issues a request of the API client.
C7_UnknownToolIff ==
    \A c \in Slots :
        LET call == calls[c]
            unknown == [content |-> <<[type |-> "text",
                                       text |-> [str |-> "Unknown tool: " \o call.name]]>>,
                        isError |-> TRUE]
        IN call.pc # "idle" =>
            /\ (call.pc = "resolved" /\ call.result = unknown) <=> call.name \notin CatalogNames
            /\ call.name \notin CatalogNames => call.fetches = <<>> /\ call.settled = <<>>
            /\ call.name \in CatalogNames =>
                    Len(call.fetches) >= 1 /\ call.fetches[1].target = "api"

C7_Witness ==
    \E c \in Slots :
        /\ calls[c].name = "ECM_GET_USER"
        /\ calls[c].pc = "resolved"
        /\ calls[c].result.isError
        /\ calls[c].fetches = <<>>

\* the finished ecm_list_pieces calls that fetched a page with a data list
GotPiecesCalls ==
    {c \in Slots :
        /\ calls[c].name = "ecm_list_pieces"
        /\ calls[c].pc = "resolved"
        /\ PrimaryOk(calls[c])
        /\ calls[c].settled[1].body.json.t = "page"
        /\ IsDef(calls[c].settled[1].body.json.data)}

\* the summary of piece i of the call and the piece, as [piece, summary]
Summaries(c) ==
    LET data == Val(calls[c].settled[1].body.json.data)
        out == Val(calls[c].result.content[1].text.json.data)
    IN {[piece |-> data[i], summary |-> out[i]] : i \in 1..Len(data)}

\* what C8 says of every summary but the sender and the recipient
SummaryShape(piece, summary) ==
    /\ DOMAIN summary \cap {"media", "url", "ocr_data"} = {}
    /\ {"id", "received_at", "piece_type", "sender", "recipient", "has_media"}
            \subseteq DOMAIN summary
    /\ summary.id = piece.id
    /\ summary.received_at = piece.received_at
    /\ summary.piece_type = piece.piece_type
    /\ summary.has_media <=> (IsDef(piece.media) /\ Len(Val(piece.media)) > 0)

ListShape(c) ==
    /\ ~calls[c].result.isError
    /\ IsDef(calls[c].result.content[1].text.json.data)
    /\ Len(Val(calls[c].result.content[1].text.json.data))
            = Len(Val(calls[c].settled[1].body.json.data))

\* C8 (as claimed): every summary of ecm_list_pieces has no media url and no
\* ocr_data, has the piece's id, received_at and piece_type, has_media true exactly
\* when the media list is non-empty, and the sender's and the recipient's name, or
\* "Unknown" when the sender or the recipient is absent.
C8_Original ==
    \A c \in GotPiecesCalls :
        /\ ListShape(c)
        /\ \A x \in Summaries(c) :
            /\ SummaryShape(x.piece, x.summary)
            /\ x.summary.sender =
                (IF IsDef(x.piece.sender) THEN Val(x.piece.sender).name ELSE "Unknown")
            /\ x.summary.recipient =
                (IF IsDef(x.piece.recipient) THEN Val(x.piece.recipient).name ELSE "Unknown")

\* C8 (amended): as claimed, but the sender and the recipient are "Unknown" also when
\* the name is the empty string.
C8_SummaryProjection ==
    \A c \in GotPiecesCalls :
        /\ ListShape(c)
        /\ \A x \in Summaries(c) :
            /\ SummaryShape(x.piece, x.summary)
            /\ x.summary.sender =
                (IF IsDef(x.piece.sender) /\ Val(x.piece.sender).name # ""
                 THEN Val(x.piece.sender).name ELSE "Unknown")
            /\ x.summary.recipient =
                (IF IsDef(x.piece.recipient) /\ Val(x.piece.recipient).name # ""
                 THEN Val(x.piece.recipient).name ELSE "Unknown")

C8_Witness ==
    \E c \in GotPiecesCalls :
        \E x \in Summaries(c) :
            /\ IsDef(x.piece.sender)
            /\ Val(x.piece.sender).name = ""
            /\ x.summary.sender = "Unknown"
            /\ x.summary.has_media

\* C9: no request is retried. A call of a catalog tool issues the primary-API request
\* first and once; a tool other than ecm_get_piece_content issues nothing else;
\* ecm_get_piece_content then issues at most one media request per media item, for
\* the items in order; a request is issued only after the one before it settled; and
\* once the primary-API request failed the call issued nothing more and returned the
\* error-flagged result.
C9_SingleAttempt ==
    \A c \in Slots :
        LET call == calls[c]
            media == MediaOf(call)
        IN (call.pc # "idle" /\ call.name \in CatalogNames) =>
            /\ Len(call.fetches) >= 1
            /\ call.fetches[1].target = "api"
            /\ \A i \in 2..Len(call.fetches) : call.fetches[i].target = "media"
            /\ call.name # "ecm_get_piece_content" => Len(call.fetches) = 1
            /\ Len(call.fetches) <= 1 + Len(media)
            /\ \A i \in 2..Len(call.fetches) : call.fetches[i].url = media[i - 1].url
            /\ Len(call.fetches) <= Len(call.settled) + 1
            /\ PrimaryFailed(call) =>
                    /\ Len(call.fetches) = 1
                    /\ call.pc = "resolved"
                    /\ call.result.isError

C9_Witness ==
    \E c \in Slots :
        /\ calls[c].name = "ecm_get_piece_content"
        /\ calls[c].pc = "resolved"
        /\ PrimaryNon2xx(calls[c])
        /\ calls[c].result.isError
        /\ Len(calls[c].fetches) = 1

\* calls of the same tool with the same arguments that got the same responses have
\* the same result
SameInputsSameResult ==
    \A c, d \in Slots :
        (/\ calls[c].pc = "resolved" /\ calls[d].pc = "resolved"
         /\ calls[c].name = calls[d].name
         /\ calls[c].args = calls[d].args
         /\ calls[c].settled = calls[d].settled) => calls[c].result = calls[d].result

\* every request of the API client carries the credential
CredentialSent ==
    \A c \in Slots :
        \A i \in 1..Len(calls[c].fetches) :
            calls[c].fetches[i].target = "api" =>
                Val(calls[c].fetches[i].headers).x_api_key = apiKey

\* C10: no step of any call, failed or not, interleaved with others or not, changes
\* the credential or the tool catalog; every API request carries that credential; and
\* calls with the same name, arguments and responses have the same result.
C10_NoSharedState ==
    [][/\ apiKey' = apiKey
       /\ tools' = tools
       /\ CredentialSent'
       /\ SameInputsSameResult']_vars

C10_Witness ==
    /\ calls[1].pc = "resolved" /\ calls[1].result.isError
    /\ calls[2].pc = "resolved" /\ ~calls[2].result.isError
    /\ calls[1].name = "ecm_get_piece_content"
    /\ calls[2].name = "ecm_get_piece_content"
    /\ calls[1].args = calls[2].args
    /\ Len(calls[2].settled) = 2


\* the finished ecm_get_piece_content calls that fetched a piece
GotContentCalls ==
    {c \in Slots :
        /\ calls[c].name = "ecm_get_piece_content"
        /\ calls[c].pc = "resolved"
        /\ calls[c].piece.t = "piece"}

\* the media response is an image by its Content-Type header
IsImage(resp) == IsDef(resp.contentType) /\ Val(resp.contentType).type = "image"

\* the blocks the media items i.. of a call stand for, in order: a failed item a
\* note, a fetched item a label and an image (every fetched item when `every`, else
\* the fetched items whose response is an image)
RECURSIVE MediaLayout(_, _, _)
MediaLayout(answers, i, every) ==
    IF i > Len(answers) THEN <<>>
    ELSE (IF MediaFailed(answers[i]) THEN <<[kind |-> "note", item |-> i]>>
          ELSE IF every \/ IsImage(answers[i])
          THEN <<[kind |-> "label", item |-> i], [kind |-> "image", item |-> i]>>
          ELSE <<>>)
         \o MediaLayout(answers, i + 1, every)

\* the base64 text of the media bodies of the model
Base64Text(bytes) ==
    IF bytes = <<255>> THEN "/w=="
    ELSE IF bytes = <<137, 80, 78, 71>> THEN "iVBORw=="
    ELSE IF bytes = <<60>> THEN "PA=="
    ELSE ""

\* the block is the one the layout names
BlockIs(block, slot, media, answers) ==
    LET resp == answers[slot.item]
    IN CASE slot.kind = "note" ->
                block.type = "text" /\ block.text = FailureNote(resp)
         [] slot.kind = "label" ->
                /\ block.type = "text"
                /\ block.text = [str |-> "\n--- Envelope Image ("
                                         \o Join(media[slot.item].tags, ", ") \o ") ---"]
         [] OTHER ->
                /\ block.type = "image"
                /\ block.data = Base64Text(resp.bytes)
                /\ IsDef(resp.contentType) =>
                        block.mimeType = Val(resp.contentType).type \o "/"
                                         \o Val(resp.contentType).subtype

\* the result of the call: the header, the OCR block exactly when include_ocr is
\* not false and the piece has OCR text, then the blocks of the layout
ContentLaidOut(c, every) ==
    LET call == calls[c]
        piece == call.piece
        content == call.result.content
        answers == MediaAnswers(call)
        withOcr == call.args.include_ocr # Some(FALSE) /\ IsDef(piece.ocr_data)
                   /\ Val(piece.ocr_data) # ""
        lead == IF withOcr THEN 2 ELSE 1
        layout == MediaLayout(answers, 1, every)
    IN /\ ~call.result.isError
       /\ Len(content) = lead + Len(layout)
       /\ content[1].type = "text"
       /\ content[1].text =
            [str |-> "Mail piece " \o ToString(piece.id) \o ": "
                     \o (IF IsDef(piece.page_count_actual)
                         THEN ToString(Val(piece.page_count_actual)) ELSE "0")
                     \o " scanned pages\n" \o HeaderNote]
       /\ withOcr =>
            /\ content[2].type = "text"
            /\ content[2].text =
                [str |-> "\n--- OCR Text (" \o NumStr(piece.page_count_actual)
                         \o " pages) ---\n" \o Val(piece.ocr_data)]
       /\ \A k \in 1..Len(layout) :
            BlockIs(content[lead + k], layout[k], MediaOf(call), answers)

\* C11 (as claimed): the successful result of ecm_get_piece_content is the header
\* block, then the OCR block exactly when include_ocr is not false and the piece has
\* OCR text, then for each fetched media item, in media-list order, a text block and
\* an image block holding the base64 data and the content type.
C11_Original == \A c \in GotContentCalls : ContentLaidOut(c, TRUE)

\* C11 (amended): as claimed, but only a fetched media item whose response has an
\* image/ content type adds the text block and the image block; a fetched item of
\* another or of no content type adds nothing (and a failed item its failure note).
C11_ContentOrder == \A c \in GotContentCalls : ContentLaidOut(c, FALSE)

C11_Witness ==
    \E c \in GotContentCalls :
        /\ Len(MediaOf(calls[c])) = 2
        /\ IsImage(calls[c].settled[2])
        /\ ~MediaFailed(calls[c].settled[3]) /\ ~IsImage(calls[c].settled[3])
        /\ Len(calls[c].result.content) = 4
        /\ calls[c].result.content[4].type = "image"


====
